---- MODULE Spec2Model ----
(***************************************************************************)
(* Model of the asynchronous tree-analysis job pipeline:                   *)
(*   - the Task table (app/models/task.py),                                *)
(*   - the ingestion endpoint that validates an upload, creates a row and  *)
(*     enqueues its id (app/api/routes.py, create_new_task;                *)
(*     app/utils/file_utils.py, validate_file),                            *)
(*   - the Celery task process_image (app/services/image_processor.py),    *)
(*     executed by a pool of workers, with its retry call,                 *)
(*   - the report of the YOLO stage                                        *)
(*     (app/services/yolo_analyzer.py, _process_photo, _analyze_defects),  *)
(*   - its legacy conversion and the mock health score                     *)
(*     (app/services/ml_tree_analyzer.py, _analyze_with_yolo,              *)
(*     _calculate_health_score),                                           *)
(*   - the normalisation of the image (image_processor.py lines 42-51),    *)
(*   - the persisted JSON encoding of the findings and the status endpoint *)
(*     (app/api/routes.py, check_task_status),                             *)
(*   - the webhook endpoint (app/api/routes.py, webhook_task_complete).    *)
(*                                                                         *)
(* A nullable column is a sequence of length at most one: Null is <<>>,    *)
(* a value v is <<v>>.  Confidences and scores are hundredths (0..100).    *)
(*                                                                         *)
(* The variable calc holds one call looked at on its own, with its         *)
(* arguments and its result: a function of the analysis layer, the         *)
(* normaliser, or the last request to the ingestion endpoint with the      *)
(* status code of its response.  The workers never touch it.               *)
(***************************************************************************)
EXTENDS Integers, Sequences, FiniteSets, TLC

VARIABLES tasks, files, queue, workers, ghost, webhooks, calc, users

vars == <<tasks, files, queue, workers, ghost, webhooks, calc, users>>

----------------------------------------------------------------------------
(* Bounds of the model *)

(* Messages the environment puts on the queue: one per submission and one per
   redelivery *)
MaxDeliveries == 2

(* Calls of the webhook endpoint *)
MaxWebhookCalls == 1

(* Rows of the users table *)
MaxUsers == 3


(* Program constants *)

NumWorkers == 2

max_retries == 3

(* image_processor.py line 96: the countdown argument of self.retry *)
countdown == 60

(* ml_config.py: the largest key of DAMAGE_COUNT_PROBABILITIES *)
MaxDamageCount == 4

(* image_processor.py line 48: the box of img.thumbnail((800, 600)) *)
MaxWidth == 800

MaxHeight == 600

(* config.py line 23: Settings.max_file_size *)
max_file_size == 10485760

(* routes.py line 125: the most files one request to /api/newTasks may carry *)
max_files_per_request == 10

----------------------------------------------------------------------------
(* Nullable columns *)

Null == <<>>

Some(v) == <<v>>

(* app/models/task.py: TaskStatus *)
PENDING == "pending"

PROCESSING == "processing"

COMPLETED == "completed"

FAILED == "failed"

TaskStatus == {PENDING, PROCESSING, COMPLETED, FAILED}

(* app/models/task.py: TreeType *)
TreeType == {"oak", "pine", "birch", "maple", "cherry", "unknown"}

(* app/models/task.py: DamageType *)
DamageType ==
    {"insect_damage", "fungal_infection", "bark_damage", "leaf_discoloration",
     "branch_breakage", "root_damage", "drought_stress", "nutrient_deficiency"}

(* json.dumps: the stored text is a JSON document, not the value itself *)
json_dumps(x) == [json |-> x]

(* Tasks submitted: one for each worker process, so that every worker can be
   busy with a task of its own *)
MaxTasks == NumWorkers

TaskIds == 1..MaxTasks

(* An id for which no row is ever created (tests call process_image(999)) *)
UnknownId == 999

Workers == 1..NumWorkers

(* A queue message: the task id and Celery's request.retries *)
Msgs == (TaskIds \cup {UnknownId}) \X (0..(max_retries + 1))

----------------------------------------------------------------------------
(* The exceptions process_image can catch, by message *)

ExcFileNotFound == "Original file not found"

ExcDecode == "cannot identify image file"

ExcAnalysis == "YOLO analysis failed"

ExcMetadata == "No such file or directory"

(* yolo_analyzer.py lines 54-57, wrapped by analyze_tree (line 58) *)
ExcModelUnavailable == "YOLO analysis failed: Segmentation model not found"

(* The AttributeError of "task.status = ..." on None at line 91 *)
ExcAttribute == "'NoneType' object has no attribute 'status'"

(* celery.exceptions.Retry, raised by self.retry when it re-enqueues *)
ExcRetry == "Retry"

----------------------------------------------------------------------------
(* yolo_analyzer.py.  A segmentation result is the sequence of detected     *)
(* instances; each has the label and the confidence of the segmentation    *)
(* model and the outcome of the defect model on it: the labels it returns, *)
(* or an exception.                                                        *)

Instance(label, conf, defect_labels, defect_raises) ==
    [label |-> label, conf |-> conf, defect_labels |-> defect_labels,
     defect_raises |-> defect_raises]

(* yolo_analyzer.py: _translate_species *)
translate_species(species) ==
    CASE species = "tree" -> "Derevo (neopredelennyi vid)"
      [] species = "oak" -> "Quercus robur"
      [] species = "pine" -> "Pinus sylvestris"
      [] species = "birch" -> "Betula pendula"
      [] species = "maple" -> "Acer platanoides"
      [] OTHER -> species

(* yolo_analyzer.py: _translate_defect *)
translate_defect(defect) ==
    CASE defect = "crack" -> "treshchina"
      [] defect = "hole" -> "duplo"
      [] defect = "bark_damage" -> "povrezhdenie kory"
      [] defect = "dead_branch" -> "sukhaya vetka"
      [] defect = "insect_damage" -> "povrezhdenie nasekomymi"
      [] OTHER -> defect

(* A defect stage that reports the failure of the defect model as a defect of
   the instance *)
analyze_defects_unguarded(c) ==
    IF c.defect_raises THEN <<"raised">>
    ELSE [i \in 1..Len(c.defect_labels) |-> translate_defect(c.defect_labels[i])]

(* yolo_analyzer.py: _analyze_defects.  defects starts empty and the except
   clause only logs, so an exception of the defect model leaves it empty. *)
analyze_defects(c) ==
    IF c.defect_raises THEN <<>>
    ELSE [i \in 1..Len(c.defect_labels) |-> translate_defect(c.defect_labels[i])]

(* yolo_analyzer.py: _process_photo.  The "trees" list, each tree with its
   species ("vid"), its confidence ("dostovernost_predskazaniya") and its
   defects ("povrezhdeniya"). *)
process_photo(seg_res) ==
    [trees |-> [i \in 1..Len(seg_res) |->
                  [vid |-> translate_species(seg_res[i].label),
                   dostovernost_predskazaniya |-> seg_res[i].conf,
                   povrezhdeniya |-> analyze_defects(seg_res[i])]]]

(* The segmentation results used to drive the pipeline: no instance; an oak
   with a crack next to a pine on which the defect model raises *)
SegResults ==
    { <<>>,
      << Instance("oak", 90, <<"crack">>, FALSE), Instance("pine", 80, <<"hole">>, TRUE) >> }

(* The outputs of analyze_tree_image_yolo for these *)
YoloOutputs == { process_photo(seg_res) : seg_res \in SegResults }

(* Further segmentation results: a single instance with a label the species
   table does not know and no defect; a pine with two defects, one of them
   with a label the defect table does not know, returned in front of an oak
   of higher confidence *)
SegResultsMore ==
    { << Instance("elm", 65, <<>>, FALSE) >>,
      << Instance("pine", 80, <<"rot", "crack">>, FALSE), Instance("oak", 90, <<"hole">>, FALSE) >> }

AllSegResults == SegResults \cup SegResultsMore

(* ml_tree_analyzer.py: species_mapping in _analyze_with_yolo *)
species_mapping ==
    [s \in {"Quercus robur", "Pinus sylvestris", "Betula pendula", "Acer platanoides"} |->
        CASE s = "Quercus robur" -> "oak"
          [] s = "Pinus sylvestris" -> "pine"
          [] s = "Betula pendula" -> "birch"
          [] s = "Acer platanoides" -> "maple"]

MaxOf(a, b) == IF a >= b THEN a ELSE b

(* A damage_info whose type is the label of the defect *)
damage_info_typed_by_label(defect) ==
    [type |-> defect, confidence |-> 80, severity |-> "medium",
     description |-> defect, recommendations |-> <<"Obratitsya k spetsialistu">>]

(* ml_tree_analyzer.py: the damage_info built for each defect *)
damage_info(defect) ==
    [type |-> "bark_damage", confidence |-> 80, severity |-> "medium",
     description |-> defect, recommendations |-> <<"Obratitsya k spetsialistu">>]

(* The conversion with no default for an output without trees: the health
   score of the other branch, computed for zero damages *)
AnalyzeWithYoloNoBaseline(yolo_results) ==
    LET trees == yolo_results.trees
        damages == IF Len(trees) > 0
                   THEN [i \in 1..Len(trees[1].povrezhdeniya) |->
                            damage_info(trees[1].povrezhdeniya[i])]
                   ELSE <<>>
    IN [tree_type |-> IF Len(trees) > 0 /\ trees[1].vid \in DOMAIN species_mapping
                      THEN species_mapping[trees[1].vid] ELSE "unknown",
        tree_type_confidence |-> IF Len(trees) > 0
                                 THEN trees[1].dostovernost_predskazaniya ELSE 0,
        damages_detected |-> damages,
        overall_health_score |-> MaxOf(30, 100 - Len(damages) * 20),
        yolo_raw_data |-> yolo_results]

(* ml_tree_analyzer.py: _analyze_with_yolo *)
AnalyzeWithYolo(yolo_results) ==
    IF Len(yolo_results.trees) > 0
    THEN LET first_tree == yolo_results.trees[1]
             tree_type == IF first_tree.vid \in DOMAIN species_mapping
                          THEN species_mapping[first_tree.vid] ELSE "unknown"
             damages == [i \in 1..Len(first_tree.povrezhdeniya) |->
                            damage_info(first_tree.povrezhdeniya[i])]
         IN [tree_type |-> tree_type,
             tree_type_confidence |-> first_tree.dostovernost_predskazaniya,
             damages_detected |-> damages,
             overall_health_score |-> MaxOf(30, 100 - Len(damages) * 20),
             yolo_raw_data |-> yolo_results]
    ELSE [tree_type |-> "unknown",
          tree_type_confidence |-> 0,
          damages_detected |-> <<>>,
          overall_health_score |-> 50,
          yolo_raw_data |-> yolo_results]

----------------------------------------------------------------------------
(* The mock computation of the health score (ml_tree_analyzer.py,          *)
(* _calculate_health_score).  A float is an exact fraction num/den here.   *)

Frac(n, d) == [num |-> n, den |-> d]

Mul(a, b) == Frac(a.num * b.num, a.den * b.den)

(* a = b and a <= b on fractions with positive denominators *)
FracEq(a, b) == a.num * b.den = b.num * a.den

FracLeq(a, b) == a.num * b.den <= b.num * a.den

(* ml_config.py: HEALTH_SCORE_MODIFIERS, with the default of .get(severity, 1.0) *)
HEALTH_SCORE_MODIFIERS(severity) ==
    CASE severity = "low" -> Frac(19, 20)
      [] severity = "medium" -> Frac(17, 20)
      [] severity = "high" -> Frac(14, 20)
      [] OTHER -> Frac(20, 20)

(* The loop of lines 287-290: base_score *= modifier for each damage *)
RECURSIVE ApplyModifiers(_, _)
ApplyModifiers(base_score, damages) ==
    IF damages = <<>> THEN base_score
    ELSE ApplyModifiers(Mul(base_score, HEALTH_SCORE_MODIFIERS(Head(damages).severity)),
                        Tail(damages))

(* max(0.0, min(1.0, x)) *)
clamp01(x) ==
    IF x.num < 0 THEN Frac(0, x.den)
    ELSE IF x.num > x.den THEN Frac(x.den, x.den) ELSE x

(* The computation without the clamp of line 294 *)
calculate_health_score_unclamped(damages, tree_confidence, jitter) ==
    Mul(ApplyModifiers(tree_confidence, damages), jitter)

(* ml_tree_analyzer.py lines 282-294; jitter is the value drawn by
   random.uniform(0.9, 1.1) *)
calculate_health_score(damages, tree_confidence, jitter) ==
    clamp01(Mul(ApplyModifiers(tree_confidence, damages), jitter))

----------------------------------------------------------------------------
(* Normalisation: image_processor.py lines 42-51 *)

(* The modes Image.open reports for the files it can decode: bilevel, grey,
   paletted, RGB, RGB with alpha, CMYK, grey with alpha, paletted with alpha *)
ImageModes == {"1", "L", "P", "RGB", "RGBA", "CMYK", "LA", "PA"}

(* The modes the JPEG encoder writes; img.save raises OSError for the others *)
JpegModes == {"1", "L", "RGB", "RGBX", "CMYK", "YCbCr"}

(* Lines 44-45: if img.mode in ('RGBA', 'LA', 'P'): img = img.convert('RGB') *)
convert_mode(mode) == IF mode \in {"RGBA", "LA", "P"} THEN "RGB" ELSE mode

Abs(n) == IF n < 0 THEN 0 - n ELSE n

(* Pillow's round_aspect for the width: max(min(floor, ceil, key), 1) of
   number = bh * w / h with key(n) = abs(w / h - n / bh), compared exactly *)
round_aspect_width(w, h, bh) ==
    LET lo == (bh * w) \div h
        hi == IF (bh * w) % h = 0 THEN lo ELSE lo + 1
        n == IF Abs(bh * w - lo * h) <= Abs(bh * w - hi * h) THEN lo ELSE hi
    IN MaxOf(n, 1)

(* The same for the height: number = bw * h / w with
   key(n) = 0 if n = 0, else abs(w / h - bw / n) *)
round_aspect_height(w, h, bw) ==
    LET lo == (bw * h) \div w
        hi == IF (bw * h) % w = 0 THEN lo ELSE lo + 1
        n == IF lo = 0 THEN lo
             ELSE IF Abs(w * lo - bw * h) * hi <= Abs(w * hi - bw * h) * lo THEN lo ELSE hi
    IN MaxOf(n, 1)

(* A resize that always fills the box, for small images as well *)
thumbnail_filling_box(size, box) ==
    LET w == size[1]
        h == size[2]
    IN IF box[1] * h >= box[2] * w
       THEN <<round_aspect_width(w, h, box[2]), box[2]>>
       ELSE <<box[1], round_aspect_height(w, h, box[1])>>

(* Line 48: img.thumbnail(box).  An image within the box is left alone;
   otherwise the side that overflows more is set to the box and the other
   follows the aspect ratio. *)
thumbnail(size, box) ==
    LET w == size[1]
        h == size[2]
    IN IF box[1] >= w /\ box[2] >= h THEN size
       ELSE IF box[1] * h >= box[2] * w
            THEN <<round_aspect_width(w, h, box[2]), box[2]>>
            ELSE <<box[1], round_aspect_height(w, h, box[1])>>

(* Lines 42-51: the image handed to img.save(processed_path, 'JPEG') and
   whether the encoder writes it *)
normalize(mode, size) ==
    [mode |-> convert_mode(mode),
     size |-> thumbnail(size, <<MaxWidth, MaxHeight>>),
     saved |-> convert_mode(mode) \in JpegModes]

----------------------------------------------------------------------------
(* The persisted encoding of the findings: json.dumps at image_processor.py *)
(* line 65 and json.loads on the consumer's side.  A Python value carries   *)
(* its type; a JSON document has strings, numbers, arrays and objects only. *)

PyStr(s) == [py |-> "str", value |-> s, items |-> <<>>]

PyFloat(x) == [py |-> "float", value |-> x, items |-> <<>>]

PyList(items) == [py |-> "list", value |-> 0, items |-> items]

PyTuple(items) == [py |-> "tuple", value |-> 0, items |-> items]

PyDict(members) == [py |-> "dict", value |-> 0, items |-> members]

(* json.dumps: str to a string, float to a number, list and tuple to an
   array, dict to an object *)
RECURSIVE json_encode(_)
json_encode(v) ==
    CASE v.py = "str" -> [json |-> "string", value |-> v.value, items |-> <<>>]
      [] v.py = "float" -> [json |-> "number", value |-> v.value, items |-> <<>>]
      [] v.py \in {"list", "tuple"} ->
             [json |-> "array", value |-> 0,
              items |-> [i \in DOMAIN v.items |-> json_encode(v.items[i])]]
      [] v.py = "dict" ->
             [json |-> "object", value |-> 0,
              items |-> [k \in DOMAIN v.items |-> json_encode(v.items[k])]]

(* json.loads: a string to str, a number with a fraction to float, an array
   to a list, an object to a dict *)
RECURSIVE json_loads(_)
json_loads(j) ==
    CASE j.json = "string" -> PyStr(j.value)
      [] j.json = "number" -> PyFloat(j.value)
      [] j.json = "array" -> PyList([i \in DOMAIN j.items |-> json_loads(j.items[i])])
      [] j.json = "object" -> PyDict([k \in DOMAIN j.items |-> json_loads(j.items[k])])

(* A damage_info that holds its recommendations in a tuple *)
PyFindingWithTuple(d) ==
    PyDict([type |-> PyStr(d.type),
            confidence |-> PyFloat(d.confidence),
            severity |-> PyStr(d.severity),
            description |-> PyStr(d.description),
            recommendations |->
                PyTuple([i \in DOMAIN d.recommendations |-> PyStr(d.recommendations[i])])])

(* ml_tree_analyzer.py lines 104-110: the Python value of a damage_info, a
   dict with str keys, str and float values and a list of str *)
PyFinding(d) ==
    PyDict([type |-> PyStr(d.type),
            confidence |-> PyFloat(d.confidence),
            severity |-> PyStr(d.severity),
            description |-> PyStr(d.description),
            recommendations |->
                PyList([i \in DOMAIN d.recommendations |-> PyStr(d.recommendations[i])])])

(* ml_tree_analyzer.py lines 102-111: the list damages *)
PyFindings(damages) == PyList([i \in DOMAIN damages |-> PyFinding(damages[i])])

----------------------------------------------------------------------------
(* The mock generation of a damage (ml_tree_analyzer.py,                    *)
(* _generate_damage_analysis) and its tables (ml_config.py)                *)

(* ml_config.py: SEVERITY_PROBABILITIES, the severities _select_severity returns *)
SEVERITY_PROBABILITIES == {"low", "medium", "high"}

(* ml_config.py: DAMAGE_DESCRIPTIONS *)
DAMAGE_DESCRIPTIONS ==
    [t \in DamageType |->
        CASE t = "insect_damage" -> "Signs of insect infestation detected"
          [] t = "fungal_infection" -> "Fungal infection present on tree"
          [] t = "bark_damage" -> "Bark damage or wounds observed"
          [] t = "leaf_discoloration" -> "Unusual leaf discoloration detected"
          [] t = "branch_breakage" -> "Broken or damaged branches found"
          [] t = "root_damage" -> "Potential root system damage"
          [] t = "drought_stress" -> "Signs of drought stress visible"
          [] t = "nutrient_deficiency" -> "Nutrient deficiency symptoms detected"]

(* The table with the recommendations of one pair left empty *)
TREATMENT_RECOMMENDATIONS_with_gap ==
    [t \in DamageType |->
        CASE t = "insect_damage" ->
                 [low |-> <<"Monitor tree regularly", "Apply preventive treatment">>,
                  medium |-> <<"Apply insecticide treatment", "Remove affected branches">>,
                  high |-> <<"Immediate treatment required", "Consult arborist", "Consider tree removal if severe">>]
          [] t = "fungal_infection" ->
                 [low |-> <<"Improve air circulation", "Remove dead material">>,
                  medium |-> <<"Apply fungicide", "Prune affected areas">>,
                  high |-> <<"Immediate fungicide treatment", "Extensive pruning required", "Monitor closely">>]
          [] t = "bark_damage" ->
                 [low |-> <<"Protect from further damage", "Apply wound dressing">>,
                  medium |-> <<"Clean and treat wounds", "Monitor for infection">>,
                  high |-> <<"Immediate wound treatment", "Protect from pests", "Consider professional help">>]
          [] t = "leaf_discoloration" ->
                 [low |-> <<"Check soil conditions", "Adjust watering">>,
                  medium |-> <<"Soil testing recommended", "Fertilizer application">>,
                  high |-> <<"Immediate soil analysis", "Professional consultation needed">>]
          [] t = "branch_breakage" ->
                 [low |-> <<"Prune broken branches", "Clean cuts properly">>,
                  medium |-> <<"Remove damaged branches", "Support remaining structure">>,
                  high |-> <<"Immediate pruning required", "Structural support needed", "Safety assessment">>]
          [] t = "root_damage" ->
                 [low |-> <<"Improve drainage", "Avoid soil compaction">>,
                  medium |-> <<"Root zone treatment", "Mulching recommended">>,
                  high |-> <<>>]
          [] t = "drought_stress" ->
                 [low |-> <<"Increase watering", "Apply mulch">>,
                  medium |-> <<"Deep watering schedule", "Soil moisture monitoring">>,
                  high |-> <<"Emergency watering", "Shade protection", "Professional irrigation">>]
          [] t = "nutrient_deficiency" ->
                 [low |-> <<"Soil testing", "Balanced fertilization">>,
                  medium |-> <<"Targeted nutrient application", "pH adjustment">>,
                  high |-> <<"Immediate nutrient treatment", "Soil amendment", "Professional consultation">>]]

(* ml_config.py: TREATMENT_RECOMMENDATIONS *)
TREATMENT_RECOMMENDATIONS ==
    [t \in DamageType |->
        CASE t = "insect_damage" ->
                 [low |-> <<"Monitor tree regularly", "Apply preventive treatment">>,
                  medium |-> <<"Apply insecticide treatment", "Remove affected branches">>,
                  high |-> <<"Immediate treatment required", "Consult arborist", "Consider tree removal if severe">>]
          [] t = "fungal_infection" ->
                 [low |-> <<"Improve air circulation", "Remove dead material">>,
                  medium |-> <<"Apply fungicide", "Prune affected areas">>,
                  high |-> <<"Immediate fungicide treatment", "Extensive pruning required", "Monitor closely">>]
          [] t = "bark_damage" ->
                 [low |-> <<"Protect from further damage", "Apply wound dressing">>,
                  medium |-> <<"Clean and treat wounds", "Monitor for infection">>,
                  high |-> <<"Immediate wound treatment", "Protect from pests", "Consider professional help">>]
          [] t = "leaf_discoloration" ->
                 [low |-> <<"Check soil conditions", "Adjust watering">>,
                  medium |-> <<"Soil testing recommended", "Fertilizer application">>,
                  high |-> <<"Immediate soil analysis", "Professional consultation needed">>]
          [] t = "branch_breakage" ->
                 [low |-> <<"Prune broken branches", "Clean cuts properly">>,
                  medium |-> <<"Remove damaged branches", "Support remaining structure">>,
                  high |-> <<"Immediate pruning required", "Structural support needed", "Safety assessment">>]
          [] t = "root_damage" ->
                 [low |-> <<"Improve drainage", "Avoid soil compaction">>,
                  medium |-> <<"Root zone treatment", "Mulching recommended">>,
                  high |-> <<"Immediate root care", "Professional assessment", "Consider tree removal">>]
          [] t = "drought_stress" ->
                 [low |-> <<"Increase watering", "Apply mulch">>,
                  medium |-> <<"Deep watering schedule", "Soil moisture monitoring">>,
                  high |-> <<"Emergency watering", "Shade protection", "Professional irrigation">>]
          [] t = "nutrient_deficiency" ->
                 [low |-> <<"Soil testing", "Balanced fertilization">>,
                  medium |-> <<"Targeted nutrient application", "pH adjustment">>,
                  high |-> <<"Immediate nutrient treatment", "Soil amendment", "Professional consultation">>]]

(* round(confidence, 3), the confidence in ten-thousandths and the result in
   thousandths *)
round3(confidence) == (confidence + 5) \div 10

(* ml_tree_analyzer.py lines 234-240: the damage_info of the mock, with the
   defaults of the two .get lookups *)
generated_damage_info(damage_type, confidence, severity) ==
    [type |-> damage_type,
     confidence |-> round3(confidence),
     severity |-> severity,
     description |-> IF damage_type \in DOMAIN DAMAGE_DESCRIPTIONS
                     THEN DAMAGE_DESCRIPTIONS[damage_type]
                     ELSE "Unknown damage type",
     recommendations |->
         IF /\ damage_type \in DOMAIN TREATMENT_RECOMMENDATIONS
            /\ severity \in DOMAIN TREATMENT_RECOMMENDATIONS[damage_type]
         THEN TREATMENT_RECOMMENDATIONS[damage_type][severity]
         ELSE <<"Consult with arborist">>]

----------------------------------------------------------------------------
(* The Task row *)

(* routes.py: the row written by create_new_task for the user of the request *)
NewTask(id, user_id) ==
    [id |-> id, user_id |-> user_id, status |-> PENDING,
     original_path |-> <<"original", id>>,
     result_path |-> Null, tree_type |-> Null, tree_type_confidence |-> Null,
     damages_detected |-> Null, overall_health_score |-> Null,
     task_metadata |-> Some(json_dumps([original_filename |-> "upload", file_size |-> 1]))]

(* db.commit(): one atomic UPDATE of the attributes assigned since the last commit *)
Commit(row, dirty) ==
    [f \in DOMAIN row |-> IF f \in DOMAIN dirty THEN dirty[f] ELSE row[f]]

(* One processed file name for every task *)
processed_path_shared(row) == <<"processed", 0>>

(* image_processor.py: processed_dir / f"processed_{original_path.name}" *)
processed_path(row) == <<"processed", row.original_path[2]>>

(* image_processor.py lines 69-75: the legacy metadata of a completed run *)
Metadata(ml_results) ==
    [original_size |-> 4096, processed_size |-> 1024,
     original_dimensions |-> <<1600, 1200>>, processed_dimensions |-> <<800, 600>>,
     ml_analysis |-> ml_results]

(* The assignments with the species left out *)
ResultAssignmentsWithoutTreeType(row, ml_results) ==
    [result_path |-> Some(processed_path(row)),
     status |-> COMPLETED,
     tree_type_confidence |-> Some(ml_results.tree_type_confidence),
     damages_detected |-> Some(json_dumps(ml_results.damages_detected)),
     overall_health_score |-> Some(ml_results.overall_health_score)]

(* Assignments that add the findings to those the row already holds *)
ResultAssignmentsAppending(row, ml_results) ==
    [result_path |-> Some(processed_path(row)),
     status |-> COMPLETED,
     tree_type |-> Some(ml_results.tree_type),
     tree_type_confidence |-> Some(ml_results.tree_type_confidence),
     damages_detected |->
         IF row.damages_detected = Null
         THEN Some(json_dumps(ml_results.damages_detected))
         ELSE Some(json_dumps(row.damages_detected[1].json \o ml_results.damages_detected)),
     overall_health_score |-> Some(ml_results.overall_health_score)]

(* Assignments that also point the row at the processed file as its original *)
ResultAssignmentsReplacingOriginal(row, ml_results) ==
    [result_path |-> Some(processed_path(row)),
     original_path |-> processed_path(row),
     status |-> COMPLETED,
     tree_type |-> Some(ml_results.tree_type),
     tree_type_confidence |-> Some(ml_results.tree_type_confidence),
     damages_detected |-> Some(json_dumps(ml_results.damages_detected)),
     overall_health_score |-> Some(ml_results.overall_health_score)]

(* image_processor.py lines 59-66: the assignments before the metadata is built *)
ResultAssignments(row, ml_results) ==
    [result_path |-> Some(processed_path(row)),
     status |-> COMPLETED,
     tree_type |-> Some(ml_results.tree_type),
     tree_type_confidence |-> Some(ml_results.tree_type_confidence),
     damages_detected |-> Some(json_dumps(ml_results.damages_detected)),
     overall_health_score |-> Some(ml_results.overall_health_score)]

(* A handler that records the error and leaves the status alone *)
FailedAssignmentsWithoutStatus(exc) ==
    [task_metadata |-> Some(json_dumps([error |-> exc]))]

(* A handler that also resets the result columns *)
FailedAssignmentsClearingResults(exc) ==
    [status |-> FAILED, task_metadata |-> Some(json_dumps([error |-> exc])),
     result_path |-> Null, tree_type |-> Null, tree_type_confidence |-> Null,
     damages_detected |-> Null, overall_health_score |-> Null]

(* A handler that puts the row back to PENDING for the retry *)
FailedAssignmentsBackToPending(exc) ==
    [status |-> PENDING, task_metadata |-> Some(json_dumps([error |-> exc]))]

(* image_processor.py lines 90-92: the assignments of the except handler *)
FailedAssignments(exc) ==
    [status |-> FAILED, task_metadata |-> Some(json_dumps([error |-> exc]))]

(* Merge of two sets of pending assignments, the later one winning *)
Overlay(first, later) ==
    [f \in DOMAIN first \cup DOMAIN later |->
        IF f \in DOMAIN later THEN later[f] ELSE first[f]]

(* ml_tree_analyzer.py: analyze_tree, reached through analyze_tree_image.  The
   path it is given goes to _analyze_with_yolo, which hands it to the
   segmentation model, and is recorded in the results with the model version
   and the method.  yolo_results is what the analyzer returns for that image. *)
analyze_tree(image_path, yolo_results) ==
    Overlay(AnalyzeWithYolo(yolo_results),
            [image_path |-> image_path,
             ml_model_version |-> "YOLO11",
             analysis_method |-> "YOLO"])

(* image_processor.py line 55: analyze_tree_image(str(original_path)) *)
analyze_image_of(row, yolo_results) == analyze_tree(row.original_path, yolo_results)

(* A budget that allows one retry too many *)
ShouldRetryOnceMore(retries) == retries <= max_retries

(* image_processor.py line 96: self.retry(exc=e, countdown=60, max_retries=3)
   re-enqueues while request.retries has not reached max_retries, and
   re-raises exc otherwise *)
ShouldRetry(retries) == retries < max_retries

----------------------------------------------------------------------------
(* State *)

Idle == [pc |-> "idle", id |-> 0, retries |-> 0, seen |-> ""]

(* The executions counter stops at one past the retry budget *)
RunsCap == max_retries + 2

(* One more execution, up to the cap *)
CountRun(g) == IF g.runs < RunsCap THEN g.runs + 1 ELSE g.runs

(* The value of the session cookie of a request: the token of a client that
   keeps its session, and the absence of the cookie *)
SessionCookie == <<"client", 1>>

NoCookie == <<>>

(* History of a task id: executions started, redeliveries, the last exception
   caught, whether an execution has committed COMPLETED, the exception that
   left the last finished execution ("" when it returned), the cookie sent
   with the upload, and the countdown of the last retry scheduled (0 when
   none was) *)
NewGhost ==
    [runs |-> 0, redelivered |-> 0, lastExc |-> "", completed |-> FALSE, raised |-> "",
     uploader |-> NoCookie, countdown |-> 0]

(* No call of an analysis function is being looked at *)
NoCall == [fn |-> "none"]

Init ==
    /\ tasks = <<>>
    /\ files = <<>>
    /\ queue = [m \in Msgs |-> 0]
    /\ workers = [w \in Workers |-> Idle]
    /\ ghost = <<>>
    /\ webhooks = 0
    /\ users = <<>>
    /\ calc = NoCall

----------------------------------------------------------------------------
(* Queue operations *)

Enqueue(q, m) == [q EXCEPT ![m] = @ + 1]

Dequeue(q, m) == [q EXCEPT ![m] = @ - 1]

InQueue(t) == \E m \in Msgs : m[1] = t /\ queue[m] > 0

Running(t) == \E w \in Workers : workers[w].pc # "idle" /\ workers[w].id = t

----------------------------------------------------------------------------
RECURSIVE SumRedelivered(_)
SumRedelivered(ids) ==
    IF ids = {} THEN 0
    ELSE LET t == CHOOSE x \in ids : TRUE
         IN ghost[t].redelivered + SumRedelivered(ids \ {t})

(* Redeliveries so far, over all tasks *)
Redeliveries == SumRedelivered(DOMAIN ghost)

(* Messages put on the queue by submissions and redeliveries *)
Deliveries == Cardinality(DOMAIN tasks) + Redeliveries

(* Ingestion: routes.py create_new_task.  validate_file checks only the size
   and the extension, so the stored bytes may or may not decode as an image. *)

(* auth.py: generate_cookie_token, a token no user has yet *)
generate_cookie_token == <<"generated", Len(users) + 1>>

(* A user row with this cookie_token exists *)
KnownCookie(cookie) == \E i \in DOMAIN users : users[i] = cookie

(* auth.py: get_user_from_request and get_or_create_user_by_cookie.  A request
   without the cookie gets a fresh token; a token no user has creates a user.
   users is the users table, the id of a user its index, the entry its
   cookie_token. *)
UsersAfter(cookie) ==
    IF cookie = NoCookie THEN Append(users, generate_cookie_token)
    ELSE IF KnownCookie(cookie) THEN users
    ELSE Append(users, cookie)

(* The id of the user get_current_user returns *)
UserIdFor(cookie) ==
    IF cookie # NoCookie /\ KnownCookie(cookie)
    THEN CHOOSE i \in DOMAIN users : users[i] = cookie
    ELSE Len(users) + 1

StoreAndEnqueue(cookie, content) ==
    LET id == Cardinality(DOMAIN tasks) + 1
    IN /\ id <= MaxTasks
       /\ Deliveries < MaxDeliveries
       /\ users' = UsersAfter(cookie)
       /\ tasks' = [t \in DOMAIN tasks \cup {id} |->
                       IF t = id THEN NewTask(id, UserIdFor(cookie)) ELSE tasks[t]]
       /\ files' = [t \in DOMAIN files \cup {id} |-> IF t = id THEN content ELSE files[t]]
       /\ ghost' = [t \in DOMAIN ghost \cup {id} |->
                       IF t = id THEN [NewGhost EXCEPT !.uploader = cookie] ELSE ghost[t]]
       /\ queue' = Enqueue(queue, <<id, 0>>)
       /\ UNCHANGED <<workers, webhooks>>

(* create_new_task for an upload that passes validate_file, sent by the
   client that keeps its session cookie *)
CreateNewTask(content) ==
    /\ StoreAndEnqueue(SessionCookie, content)
    /\ UNCHANGED calc

(* config.py line 24: settings.allowed_extensions.split(',') *)
allowed_extensions == {"jpg", "jpeg", "png", "gif", "bmp"}

(* An upload: its size (file.size; 0 also stands for a size that is not
   known) and its name as stem and suffix *)
Uploads ==
    [size : {0, 1, max_file_size, max_file_size + 1},
     filename : {<<"photo", ".jpg">>, <<"PHOTO", ".JPG">>, <<"notes", ".txt">>}]

(* Path(filename).suffix *)
suffix(filename) == filename[2]

(* str.lower on a suffix *)
lower(x) ==
    CASE x = ".JPG" -> ".jpg"
      [] OTHER -> x

(* str.lstrip('.') on a suffix *)
lstrip_dot(x) ==
    CASE x = ".jpg" -> "jpg"
      [] x = ".txt" -> "txt"
      [] x = ".JPG" -> "JPG"
      [] OTHER -> x

(* A validation that checks the size only *)
validate_file_size_only(file) ==
    IF file.size # 0 /\ file.size > max_file_size THEN 413 ELSE 0

(* file_utils.py: validate_file.  The status code of the HTTPException it
   raises, 0 when it returns. *)
validate_file(file) ==
    IF file.size # 0 /\ file.size > max_file_size THEN 413
    ELSE IF lstrip_dot(lower(suffix(file.filename))) \notin allowed_extensions THEN 400
    ELSE 0

(* routes.py: create_new_task, the whole handler.  The dependency
   get_current_user runs first and creates the user when the cookie is new;
   then validate_file, whose HTTPException is re-raised (lines 107-108)
   before anything is stored.  calc keeps the request and the status code of
   the response. *)
NewTaskRequestBy(cookie, file, content) ==
    IF validate_file(file) # 0
    THEN /\ users' = UsersAfter(cookie)
         /\ calc' = [fn |-> "create_new_task", cookie |-> cookie, file |-> file,
                     status_code |-> validate_file(file)]
         /\ UNCHANGED <<tasks, files, queue, workers, ghost, webhooks>>
    ELSE /\ StoreAndEnqueue(cookie, content)
         /\ calc' = [fn |-> "create_new_task", cookie |-> cookie, file |-> file,
                     status_code |-> 200]

(* The request of the client that keeps its session cookie *)
NewTaskRequest(file, content) == NewTaskRequestBy(SessionCookie, file, content)

(* The stored original disappears from the upload directory.  Only an
   execution reads the file, so a removal while none is running is the same as
   one right after the next execution starts. *)
RemoveFile(t) ==
    /\ t \in DOMAIN files
    /\ files[t] # "missing"
    /\ Running(t)
    /\ files' = [files EXCEPT ![t] = "missing"]
    /\ UNCHANGED <<tasks, queue, workers, ghost, webhooks, calc, users>>

(* process_image.delay(id) for an id that has no row *)
DelayUnknown ==
    /\ queue[<<UnknownId, 0>>] = 0
    /\ queue' = Enqueue(queue, <<UnknownId, 0>>)
    /\ ghost' = [t \in DOMAIN ghost \cup {UnknownId} |->
                    IF t \in DOMAIN ghost THEN ghost[t] ELSE NewGhost]
    /\ UNCHANGED <<tasks, files, workers, webhooks, calc, users>>

(* At-least-once delivery: the visibility timeout of the message a worker is
   still executing expires and the queue delivers it again *)
Redeliver(w) ==
    /\ workers[w].pc # "idle"
    /\ Deliveries < MaxDeliveries
    /\ queue' = Enqueue(queue, <<workers[w].id, workers[w].retries>>)
    /\ ghost' = [ghost EXCEPT ![workers[w].id].redelivered = @ + 1]
    /\ UNCHANGED <<tasks, files, workers, webhooks, calc, users>>

----------------------------------------------------------------------------
(* process_image *)

(* The pool hands a message to its first free worker process *)
FreeWorker(w) ==
    /\ workers[w].pc = "idle"
    /\ \A v \in Workers : v < w => workers[v].pc # "idle"

(* Lines 88-96: the except handler.  It commits the attributes assigned so far
   in this execution (pending) together with FAILED and the error text, then
   calls self.retry. *)
Handler(w, exc, pending) ==
    LET t == workers[w].id
        r == workers[w].retries
    IN /\ tasks' = [tasks EXCEPT ![t] = Commit(@, Overlay(pending, FailedAssignments(exc)))]
       /\ queue' = IF ShouldRetry(r) THEN Enqueue(queue, <<t, r + 1>>) ELSE queue
       /\ ghost' = [ghost EXCEPT ![t].lastExc = exc,
                                 ![t].raised = IF ShouldRetry(r) THEN ExcRetry ELSE exc,
                                 ![t].countdown = IF ShouldRetry(r) THEN countdown ELSE @]
       /\ workers' = [workers EXCEPT ![w] = Idle]

(* An execution that starts its work on the file without the commit of
   lines 26-27 *)
StartProcessingWithoutCommit(w, m) ==
    /\ FreeWorker(w)
    /\ queue[m] > 0
    /\ m[1] \in DOMAIN tasks
    /\ queue' = Dequeue(queue, m)
    /\ workers' = [workers EXCEPT ![w] = [pc |-> "processing", id |-> m[1], retries |-> m[2],
                                         seen |-> files[m[1]]]]
    /\ ghost' = [ghost EXCEPT ![m[1]].runs = CountRun(ghost[m[1]])]
    /\ UNCHANGED <<tasks, files, webhooks, calc, users>>

(* Lines 17-27 with a row: the worker takes a message, loads the row and
   commits PROCESSING.  Everything up to the next commit is local to the
   worker; "seen" is the file as the normaliser can have found it. *)
StartProcessing(w, m) ==
    /\ FreeWorker(w)
    /\ queue[m] > 0
    /\ m[1] \in DOMAIN tasks
    /\ queue' = Dequeue(queue, m)
    /\ tasks' = [tasks EXCEPT ![m[1]] = Commit(@, [status |-> PROCESSING])]
    /\ workers' = [workers EXCEPT ![w] = [pc |-> "processing", id |-> m[1], retries |-> m[2],
                                         seen |-> files[m[1]]]]
    /\ ghost' = [ghost EXCEPT ![m[1]].runs = CountRun(ghost[m[1]])]
    /\ UNCHANGED <<files, webhooks, calc, users>>

(* Lines 21-23 and 88-91 without a row: task is None, the handler's
   "task.status = ..." raises AttributeError out of the handler, so nothing is
   committed and self.retry is never reached *)
TaskNotFound(w, m) ==
    /\ FreeWorker(w)
    /\ queue[m] > 0
    /\ m[1] \notin DOMAIN tasks
    /\ queue' = Dequeue(queue, m)
    /\ ghost' = [ghost EXCEPT ![m[1]].raised = ExcAttribute]
    /\ UNCHANGED <<tasks, files, workers, webhooks, calc, users>>

(* Lines 30-32: the original file is gone when the execution looks for it *)
FileMissing(w) ==
    /\ workers[w].pc = "processing"
    /\ files[workers[w].id] = "missing"
    /\ Handler(w, ExcFileNotFound, <<>>)
    /\ UNCHANGED <<files, webhooks, calc, users>>

(* Lines 42-51: Image.open cannot decode the bytes *)
DecodeFails(w) ==
    /\ workers[w].pc = "processing"
    /\ workers[w].seen = "corrupt"
    /\ Handler(w, ExcDecode, <<>>)
    /\ UNCHANGED <<files, webhooks, calc, users>>

(* Lines 42-56: normalisation succeeded, analyze_tree_image raises *)
AnalysisFails(w) ==
    /\ workers[w].pc = "processing"
    /\ workers[w].seen = "ok"
    /\ Handler(w, ExcAnalysis, <<>>)
    /\ UNCHANGED <<files, webhooks, calc, users>>

(* Lines 42-56: normalisation succeeded, get_yolo_analyzer cannot load the
   models (a model file is missing) and analyze_tree raises *)
ModelUnavailable(w) ==
    /\ workers[w].pc = "processing"
    /\ workers[w].seen = "ok"
    /\ Handler(w, ExcModelUnavailable, <<>>)
    /\ UNCHANGED <<files, webhooks, calc, users>>

(* Lines 42-76: normalisation and analysis succeeded and the result attributes
   were assigned (lines 59-66); os.path.getsize / Image.open at lines 70-73
   raise because the original is gone by then *)
MetadataFails(w, yolo_results) ==
    /\ workers[w].pc = "processing"
    /\ workers[w].seen = "ok"
    /\ files[workers[w].id] = "missing"
    /\ Handler(w, ExcMetadata,
               ResultAssignments(tasks[workers[w].id],
                                 analyze_image_of(tasks[workers[w].id], yolo_results)))
    /\ UNCHANGED <<files, webhooks, calc, users>>

(* Lines 42-86: normalisation and analysis succeeded, the metadata is built
   and everything is committed *)
Complete(w, yolo_results) ==
    /\ workers[w].pc = "processing"
    /\ files[workers[w].id] = "ok"
    /\ LET t == workers[w].id
           ml_results == analyze_image_of(tasks[t], yolo_results)
           dirty == Overlay(ResultAssignments(tasks[t], ml_results),
                            [task_metadata |-> Some(json_dumps(Metadata(ml_results)))])
       IN /\ tasks' = [tasks EXCEPT ![t] = Commit(@, dirty)]
          /\ ghost' = [ghost EXCEPT ![t].completed = TRUE, ![t].raised = ""]
    /\ workers' = [workers EXCEPT ![w] = Idle]
    /\ UNCHANGED <<files, queue, webhooks, calc, users>>

----------------------------------------------------------------------------
(* routes.py: webhook_task_complete *)

WebhookPayloads ==
    [task_id : TaskIds, status : TaskStatus,
     result_path : {Null, Some(<<"external", 1>>)},
     task_metadata : {Null, Some(json_dumps([note |-> "webhook"]))}]

WebhookAssignments(payload) ==
    Overlay(Overlay([status |-> payload.status],
                    IF payload.result_path # Null
                    THEN [result_path |-> payload.result_path] ELSE <<>>),
            IF payload.task_metadata # Null
            THEN [task_metadata |-> payload.task_metadata] ELSE <<>>)

WebhookTaskComplete(payload) ==
    /\ webhooks < MaxWebhookCalls
    /\ payload.task_id \in DOMAIN tasks
    /\ tasks' = [tasks EXCEPT ![payload.task_id] = Commit(@, WebhookAssignments(payload))]
    /\ webhooks' = webhooks + 1
    /\ UNCHANGED <<files, queue, workers, ghost, calc, users>>

----------------------------------------------------------------------------
(* auth.py: verify_task_ownership, the query filtered by Task.id and
   Task.user_id finds a row *)
verify_task_ownership(task_id, user_id) ==
    /\ task_id \in DOMAIN tasks
    /\ tasks[task_id].user_id = user_id

(* routes.py lines 225-229 and 233-237: the HTTPException of the endpoint *)
TaskNotFoundResponse == [status_code |-> 404, detail |-> "Task not found"]

(* The body of the 200 response, routes.py lines 239-248.  The nullable
   columns are passed on as they are stored: damages_detected is the
   persisted JSON text. *)
TaskStatusResponse(task_id) ==
    [status_code |-> 200,
     id |-> tasks[task_id].id,
     status |-> tasks[task_id].status,
     result_path |-> tasks[task_id].result_path,
     task_metadata |-> tasks[task_id].task_metadata,
     tree_type |-> tasks[task_id].tree_type,
     tree_type_confidence |-> tasks[task_id].tree_type_confidence,
     damages_detected |-> tasks[task_id].damages_detected,
     overall_health_score |-> tasks[task_id].overall_health_score]

(* The endpoint answering every user who names an existing task *)
check_task_status_of_any_user(task_id, user_id) ==
    IF task_id \notin DOMAIN tasks
    THEN TaskNotFoundResponse
    ELSE TaskStatusResponse(task_id)

(* routes.py: check_task_status, the response to GET /api/isReady/{task_id}
   for the user get_current_user resolved *)
check_task_status(task_id, user_id) ==
    IF ~verify_task_ownership(task_id, user_id)
    THEN TaskNotFoundResponse
    ELSE IF task_id \notin DOMAIN tasks
    THEN TaskNotFoundResponse
    ELSE TaskStatusResponse(task_id)

(* Ingestion step by step: routes.py create_new_task and create_multiple_tasks
   with the commit of the row and the call of process_image.delay as separate
   steps.  calc holds the request being handled: the files not yet handled,
   the position within the handling of the first of them, the id of the row
   just committed, the ids created so far, and the status code of the
   response (0 while the handler is still running). *)

(* A delay issued before the row is committed *)
IngestOrderDelayFirst == <<"delay", "commit">>

(* routes.py lines 93-98 and 153-158: db.add, db.commit and db.refresh, then
   process_image.delay(task.id) *)
IngestOrder == <<"commit", "delay">>

PhotoUpload == [size |-> 1, filename |-> <<"photo", ".jpg">>]

NotesUpload == [size |-> 1, filename |-> <<"notes", ".txt">>]

(* The file lists of the requests: one or two files, valid or not, and one
   list over the limit *)
IngestRequests ==
    {<<a>> : a \in {PhotoUpload, NotesUpload}}
    \cup {<<a, b>> : a, b \in {PhotoUpload, NotesUpload}}
    \cup {[i \in 1..(max_files_per_request + 1) |-> PhotoUpload]}

IngestFns == {"create_new_task", "create_multiple_tasks"}

InFlight == calc.fn \in IngestFns /\ calc.status_code = 0

(* The request arrives: get_current_user resolves the user; newTasks refuses
   more than ten files at once (routes.py lines 125-129) *)
BeginIngest(fn, file_list) ==
    /\ ~InFlight
    /\ fn = "create_new_task" => Len(file_list) = 1
    /\ Len(file_list) <= max_files_per_request =>
           Cardinality(DOMAIN tasks) + Len(file_list) <= MaxTasks
    /\ users' = UsersAfter(SessionCookie)
    /\ calc' = [fn |-> fn, files |-> file_list, step |-> 1, id |-> 0, task_ids |-> <<>>,
                user_id |-> UserIdFor(SessionCookie),
                status_code |-> IF Len(file_list) > max_files_per_request
                                THEN 400 ELSE 0]
    /\ UNCHANGED <<tasks, files, queue, workers, ghost, webhooks>>

(* validate_file rejects the next file: the HTTPException leaves the handler
   (routes.py lines 107-108 and 169-170); what earlier files of the request
   created stays *)
IngestRejects ==
    /\ InFlight
    /\ calc.step = 1
    /\ validate_file(Head(calc.files)) # 0
    /\ calc' = [calc EXCEPT !.status_code = validate_file(Head(calc.files))]
    /\ UNCHANGED <<tasks, files, queue, workers, ghost, webhooks, users>>

(* The file is stored and the row is committed *)
IngestCommit ==
    LET id == IF calc.id = 0 THEN Cardinality(DOMAIN tasks) + 1 ELSE calc.id
    IN /\ tasks' = [t \in DOMAIN tasks \cup {id} |->
                       IF t = id THEN NewTask(id, calc.user_id) ELSE tasks[t]]
       /\ files' = [t \in DOMAIN files \cup {id} |-> IF t = id THEN "ok" ELSE files[t]]
       /\ ghost' = [t \in DOMAIN ghost \cup {id} |->
                       IF t = id THEN [NewGhost EXCEPT !.uploader = SessionCookie]
                       ELSE ghost[t]]
       /\ calc' = [calc EXCEPT !.id = id, !.step = @ + 1]
       /\ UNCHANGED queue

(* process_image.delay(task.id) *)
IngestDelay ==
    LET id == IF calc.id = 0 THEN Cardinality(DOMAIN tasks) + 1 ELSE calc.id
    IN /\ queue' = Enqueue(queue, <<id, 0>>)
       /\ calc' = [calc EXCEPT !.id = id, !.step = @ + 1]
       /\ UNCHANGED <<tasks, files, ghost>>

(* One of the two steps on the next file, in the order of the handler *)
IngestStep ==
    /\ InFlight
    /\ calc.step \in 1..2
    /\ validate_file(Head(calc.files)) = 0
    /\ IF IngestOrder[calc.step] = "commit" THEN IngestCommit ELSE IngestDelay
    /\ UNCHANGED <<workers, webhooks, users>>

(* task_ids.append(task.id) and the next file, or the response after the last *)
IngestNext ==
    /\ InFlight
    /\ calc.step = 3
    /\ calc' = [calc EXCEPT !.files = Tail(@), !.step = 1, !.id = 0,
                            !.task_ids = Append(@, calc.id),
                            !.status_code = IF Len(calc.files) = 1 THEN 200 ELSE 0]
    /\ UNCHANGED <<tasks, files, queue, workers, ghost, webhooks, users>>

(* What a request can carry as its session cookie *)
Cookies == {NoCookie, SessionCookie}

(* POST /api/newTask with a valid image from a client that sends this cookie
   value, while the users table has room for the user it may create *)
Upload(cookie, content) ==
    /\ Len(UsersAfter(cookie)) <= MaxUsers
    /\ NewTaskRequestBy(cookie, [size |-> 1, filename |-> <<"photo", ".jpg">>], content)

(* GET /api/isReady/{task_id}, the whole request: get_current_user resolves
   or creates the user, then check_task_status answers.  The endpoint sets no
   cookie on the response.  calc keeps the request and its response. *)
CheckTaskStatus(cookie, task_id) ==
    /\ Len(UsersAfter(cookie)) <= MaxUsers
    /\ users' = UsersAfter(cookie)
    /\ calc' = [fn |-> "check_task_status", cookie |-> cookie, task_id |-> task_id,
                user_id |-> UserIdFor(cookie),
                response |-> check_task_status(task_id, UserIdFor(cookie))]
    /\ UNCHANGED <<tasks, files, queue, workers, ghost, webhooks>>

----------------------------------------------------------------------------
(* Specifications *)

(* One step of process_image in worker w *)
WorkerStep(w) ==
    \/ \E m \in Msgs : StartProcessing(w, m)
    \/ FileMissing(w)
    \/ DecodeFails(w)
    \/ AnalysisFails(w)
    \/ \E y \in YoloOutputs : MetadataFails(w, y)
    \/ \E y \in YoloOutputs : Complete(w, y)

Dispatch == \E w \in Workers : WorkerStep(w)

Next ==
    \/ \E c \in {"ok", "corrupt"} : CreateNewTask(c)
    \/ \E t \in TaskIds : RemoveFile(t)
    \/ \E w \in Workers : Redeliver(w)
    \/ Dispatch

(* The pipeline: ingestion, the queue and the workers *)
Spec == Init /\ [][Next]_vars

(* The pipeline with every worker process scheduled fairly: a worker that can
   take a step of process_image eventually takes one *)
FairSpec == Init /\ [][Next]_vars /\ \A w \in Workers : WF_vars(WorkerStep(w))

NextApi ==
    \/ Next
    \/ \E payload \in WebhookPayloads : WebhookTaskComplete(payload)

(* The pipeline together with the other writer of the Task table *)
SpecApi == Init /\ [][NextApi]_vars

NextModelMissing ==
    \/ Next
    \/ \E w \in Workers : ModelUnavailable(w)

(* The pipeline on a host where the model files may be missing *)
SpecModelMissing == Init /\ [][NextModelMissing]_vars

NextUnknown ==
    \/ Next
    \/ DelayUnknown
    \/ \E w \in Workers, m \in Msgs : TaskNotFound(w, m)

(* The pipeline with messages for an id that has no row *)
SpecUnknown == Init /\ [][NextUnknown]_vars

(* One step of process_image in worker w, the analysis returning the report
   of any of the segmentation results *)
SegStep(w) ==
    \/ \E m \in Msgs : StartProcessing(w, m)
    \/ DecodeFails(w)
    \/ AnalysisFails(w)
    \/ \E seg_res \in AllSegResults : Complete(w, process_photo(seg_res))

NextSeg ==
    \/ \E c \in {"ok", "corrupt"} : CreateNewTask(c)
    \/ \E w \in Workers : SegStep(w)

(* The pipeline on a queue that delivers each message once and a stable
   upload directory, over the wider set of segmentation results *)
SpecSeg == Init /\ [][NextSeg]_vars

NextUpload ==
    \/ \E file \in Uploads, c \in {"ok", "corrupt"} : NewTaskRequest(file, c)
    \/ \E w \in Workers : SegStep(w)

(* The ingestion endpoint with its validation, in front of the workers *)
SpecUpload == Init /\ [][NextUpload]_vars

(* One step of process_image on a decodable upload that stays in place *)
SessionStep(w) ==
    \/ \E m \in Msgs : StartProcessing(w, m)
    \/ AnalysisFails(w)
    \/ Complete(w, process_photo(<<Instance("elm", 65, <<>>, FALSE)>>))

NextSession ==
    \/ \E cookie \in Cookies : Upload(cookie, "ok")
    \/ \E cookie \in Cookies, task_id \in TaskIds \cup {UnknownId} :
           CheckTaskStatus(cookie, task_id)
    \/ \E w \in Workers : SessionStep(w)

(* One call of _process_photo step by step, as analyze_tree makes it once per
   execution (ml_tree_analyzer.py line 55, yolo_analyzer.py line 79).  calc
   holds the call: whether the segmentation model raises, the detections it
   returns otherwise, the position in the loop over them, the number of
   invocations of the segmentation model, the number of invocations of the
   defect model for each instance handled, and the trees built. *)

(* What can go wrong inside the try block of _analyze_defects: nothing; the
   isolation of the instance (mask, contour, temporary file, lines 151-157)
   raises before the defect model is reached; the defect model raises *)
DefectFailures == {"none", "isolate", "model"}

Detections ==
    [instance : {Instance("oak", 90, <<"crack">>, FALSE), Instance("pine", 80, <<>>, FALSE)},
     failure : DefectFailures]

Photos == {<<>>} \cup {<<a>> : a \in Detections} \cup {<<a, b>> : a, b \in Detections}

ProcessPhotoCalls ==
    [fn : {"_process_photo"}, seg_raises : BOOLEAN, photo : Photos,
     pc : {"start"}, ci : {0}, seg_calls : {0}, defect_calls : {<<>>}, trees : {<<>>}]

InitInference ==
    /\ tasks = <<>>
    /\ files = <<>>
    /\ queue = [m \in Msgs |-> 0]
    /\ workers = [w \in Workers |-> Idle]
    /\ ghost = <<>>
    /\ webhooks = 0
    /\ users = <<>>
    /\ calc \in ProcessPhotoCalls

(* Lines 94-99: the segmentation model is called; its exception leaves
   _process_photo as RuntimeError *)
SegModelCall ==
    /\ calc.pc = "start"
    /\ calc' = [calc EXCEPT !.seg_calls = @ + 1,
                            !.pc = IF calc.seg_raises THEN "raised" ELSE "loop",
                            !.ci = 1]
    /\ UNCHANGED <<tasks, files, queue, workers, ghost, webhooks, users>>

(* The tree _process_photo appends for the instance at the loop position,
   lines 111-130 *)
TreeOf(detection, defects) ==
    [vid |-> translate_species(detection.instance.label),
     dostovernost_predskazaniya |-> detection.instance.conf,
     povrezhdeniya |-> defects]

(* Lines 126-130 with lines 151-157 raising: the except clause of
   _analyze_defects logs, the defect model was not reached, the instance gets
   no defects *)
IsolationFails ==
    /\ calc.pc = "loop"
    /\ calc.ci <= Len(calc.photo)
    /\ calc.photo[calc.ci].failure = "isolate"
    /\ calc' = [calc EXCEPT !.defect_calls = Append(@, 0),
                            !.trees = Append(@, TreeOf(calc.photo[calc.ci], <<>>)),
                            !.ci = @ + 1]
    /\ UNCHANGED <<tasks, files, queue, workers, ghost, webhooks, users>>

(* Lines 126-130 with line 160 reached: the defect model is called on the
   isolated instance; its labels are translated, or its exception is logged *)
DefectModelCall ==
    /\ calc.pc = "loop"
    /\ calc.ci <= Len(calc.photo)
    /\ calc.photo[calc.ci].failure # "isolate"
    /\ LET d == calc.photo[calc.ci]
           c == [d.instance EXCEPT !.defect_raises = (d.failure = "model")]
       IN calc' = [calc EXCEPT !.defect_calls = Append(@, 1),
                              !.trees = Append(@, TreeOf(d, analyze_defects(c))),
                              !.ci = @ + 1]
    /\ UNCHANGED <<tasks, files, queue, workers, ghost, webhooks, users>>

(* Line 132: return photo_dict *)
ProcessPhotoReturns ==
    /\ calc.pc = "loop"
    /\ calc.ci > Len(calc.photo)
    /\ calc' = [calc EXCEPT !.pc = "done"]
    /\ UNCHANGED <<tasks, files, queue, workers, ghost, webhooks, users>>

NextInference ==
    \/ SegModelCall
    \/ IsolationFails
    \/ DefectModelCall
    \/ ProcessPhotoReturns

(* _process_photo applied to each of its bounded inputs *)
SpecInference == InitInference /\ [][NextInference]_vars

NextIngest ==
    \/ \E fn \in IngestFns, file_list \in IngestRequests : BeginIngest(fn, file_list)
    \/ IngestRejects
    \/ IngestStep
    \/ IngestNext
    \/ \E w \in Workers : SessionStep(w)

(* The two ingestion endpoints step by step, in front of the workers *)
SpecIngest == Init /\ [][NextIngest]_vars

(* Clients with and without a session cookie uploading and polling, in front
   of the workers *)
SpecSession == Init /\ [][NextSession]_vars

----------------------------------------------------------------------------
(* The analysis functions on their own: one call, drawn from bounded inputs *)

(* Confidences of the segmentation model, in hundredths *)
Confidences == {0, 65, 80, 90, 95, 100}

(* The same confidences as fractions *)
FracConfidences == { Frac(c \div 5, 20) : c \in Confidences }

(* Values of random.uniform(0.9, 1.1) *)
Jitters == { Frac(9, 10), Frac(10, 10), Frac(11, 10) }

(* Lists of damages up to one longer than the mock generates *)
MaxDamages == MaxDamageCount + 1

(* The severities of ml_config.py and one the modifier table does not know *)
Severities == {"low", "medium", "high", "severe"}

SeqsUpTo(S, n) == UNION { [1..k -> S] : k \in 0..n }

(* Calls of _calculate_health_score(damages, tree_confidence) *)
ScoreCalls ==
    { [fn |-> "_calculate_health_score", damages |-> d, tree_confidence |-> c,
       jitter |-> j, result |-> Null] :
        d \in SeqsUpTo([severity : Severities], MaxDamages), c \in FracConfidences, j \in Jitters }

(* Calls of _analyze_with_yolo on an output with no tree, or with one tree
   carrying up to MaxDamages defects *)
YoloCalls ==
    { [fn |-> "_analyze_with_yolo", yolo_results |-> y, result |-> Null] :
        y \in {[trees |-> <<>>]} \cup
              { process_photo(<< Instance(l, c, d, FALSE) >>) :
                  l \in {"oak", "tree"}, c \in Confidences,
                  d \in SeqsUpTo({"crack"}, MaxDamages) } }

InitScore ==
    /\ tasks = <<>>
    /\ files = <<>>
    /\ queue = [m \in Msgs |-> 0]
    /\ workers = [w \in Workers |-> Idle]
    /\ ghost = <<>>
    /\ webhooks = 0
    /\ users = <<>>
    /\ calc \in ScoreCalls \cup YoloCalls

CalculateHealthScore ==
    /\ calc.fn = "_calculate_health_score"
    /\ calc.result = Null
    /\ calc' = [calc EXCEPT !.result =
                    Some(calculate_health_score(calc.damages, calc.tree_confidence, calc.jitter))]
    /\ UNCHANGED <<tasks, files, queue, workers, ghost, webhooks, users>>

AnalyzeWithYoloCall ==
    /\ calc.fn = "_analyze_with_yolo"
    /\ calc.result = Null
    /\ calc' = [calc EXCEPT !.result = Some(AnalyzeWithYolo(calc.yolo_results))]
    /\ UNCHANGED <<tasks, files, queue, workers, ghost, webhooks, users>>

NextScore ==
    \/ CalculateHealthScore
    \/ AnalyzeWithYoloCall

(* The analysis functions applied to each of their bounded inputs *)
SpecScore == InitScore /\ [][NextScore]_vars

----------------------------------------------------------------------------
(* The findings on their own: one call of the conversion of the real backend
   or one damage of the mock *)

(* Values of random.uniform over DAMAGE_CONFIDENCE_RANGE (0.45, 0.90), in
   ten-thousandths *)
DamageConfidences == {4500, 4504, 4505, 8999, 9000}

(* One pass of the loop of _generate_damage_analysis *)
DamageCalls ==
    { [fn |-> "_generate_damage_analysis", damage_type |-> t, confidence |-> c,
       severity |-> v, result |-> Null] :
        t \in DamageType, c \in DamageConfidences, v \in SEVERITY_PROBABILITIES }

InitFindings ==
    /\ tasks = <<>>
    /\ files = <<>>
    /\ queue = [m \in Msgs |-> 0]
    /\ workers = [w \in Workers |-> Idle]
    /\ ghost = <<>>
    /\ webhooks = 0
    /\ users = <<>>
    /\ calc \in DamageCalls \cup YoloCalls

GenerateDamage ==
    /\ calc.fn = "_generate_damage_analysis"
    /\ calc.result = Null
    /\ calc' = [calc EXCEPT !.result =
                    Some(generated_damage_info(calc.damage_type, calc.confidence, calc.severity))]
    /\ UNCHANGED <<tasks, files, queue, workers, ghost, webhooks, users>>

NextFindings ==
    \/ GenerateDamage
    \/ AnalyzeWithYoloCall

(* The two producers of findings applied to each of their bounded inputs *)
SpecFindings == InitFindings /\ [][NextFindings]_vars

----------------------------------------------------------------------------
(* The normaliser on its own: one image, drawn from bounded sizes and modes *)

ImageWidths == {1, 640, 800, 801, 1600, 3000}

ImageHeights == {1, 480, 600, 601, 1200, 4000}

NormalizeCalls ==
    { [fn |-> "normalize", mode |-> m, size |-> <<w, h>>, result |-> Null] :
        m \in ImageModes, w \in ImageWidths, h \in ImageHeights }

InitNormalize ==
    /\ tasks = <<>>
    /\ files = <<>>
    /\ queue = [m \in Msgs |-> 0]
    /\ workers = [w \in Workers |-> Idle]
    /\ ghost = <<>>
    /\ webhooks = 0
    /\ users = <<>>
    /\ calc \in NormalizeCalls

Normalize ==
    /\ calc.fn = "normalize"
    /\ calc.result = Null
    /\ calc' = [calc EXCEPT !.result = Some(normalize(calc.mode, calc.size))]
    /\ UNCHANGED <<tasks, files, queue, workers, ghost, webhooks, users>>

(* The normaliser applied to each of its bounded inputs *)
SpecNormalize == InitNormalize /\ [][Normalize]_vars

----------------------------------------------------------------------------
(* Vocabulary of the properties *)

Terminal == {COMPLETED, FAILED}

(* PENDING < PROCESSING < {COMPLETED, FAILED} *)
Rank(status) ==
    CASE status = PENDING -> 0
      [] status = PROCESSING -> 1
      [] OTHER -> 2

(* No message of t is queued and no worker executes t *)
Quiescent(t) == ~InQueue(t) /\ ~Running(t)

ResultFields ==
    {"result_path", "tree_type", "tree_type_confidence", "damages_detected",
     "overall_health_score"}

(* The error payload of a row: task_metadata holds {"error": ...} *)
HasError(row) ==
    /\ row.task_metadata # Null
    /\ "error" \in DOMAIN row.task_metadata[1].json

(* Worker w ends its execution in this step *)
Ends(w) == workers[w].pc # "idle" /\ workers'[w].pc = "idle"

(* The execution of worker w ends in this step by committing FAILED *)
FailStep(w) == Ends(w) /\ tasks'[workers[w].id].status = FAILED

(* The execution of worker w ends in this step and schedules a retry *)
RetryScheduled(w) ==
    /\ Ends(w)
    /\ \E m \in Msgs : m[1] = workers[w].id /\ queue'[m] > queue[m]

----------------------------------------------------------------------------
(* C1: COMPLETED and FAILED are terminal: once a task's committed status is
   COMPLETED or FAILED, no step commits a different status for it. *)
C1_TerminalIsFinal ==
    [][\A t \in DOMAIN tasks :
          tasks[t].status \in Terminal => tasks'[t].status = tasks[t].status]_vars

(* C2: the committed statuses of a task never decrease under the order
   PENDING < PROCESSING < {COMPLETED, FAILED}. *)
C2_StatusNonDecreasing ==
    [][\A t \in DOMAIN tasks : Rank(tasks'[t].status) >= Rank(tasks[t].status)]_vars

(* C3: an execution that fails because the source image is missing or cannot
   be decoded commits FAILED and schedules no retry. *)
C3_InputFailureNotRetried ==
    [][\A w \in Workers :
          (FailStep(w) /\ ghost'[workers[w].id].lastExc \in {ExcFileNotFound, ExcDecode})
              => ~RetryScheduled(w)]_vars

(* C4: when a failed execution schedules a retry, the status it commits is
   PENDING; FAILED is committed only when no retry is scheduled. *)
C4_RetryCommitsPending ==
    [][\A w \in Workers :
          RetryScheduled(w) => tasks'[workers[w].id].status = PENDING]_vars

(* C5: without redelivery a task is executed at most 1 + max_retries times,
   and when all its executions have failed and none is left to run, the row
   is FAILED and carries the message of the last failure. *)
C5_RetryBudget ==
    \A t \in DOMAIN tasks :
        ghost[t].redelivered = 0 =>
            /\ ghost[t].runs <= 1 + max_retries
            /\ (Quiescent(t) /\ ghost[t].runs > 0 /\ ~ghost[t].completed) =>
                   /\ tasks[t].status = FAILED
                   /\ tasks[t].task_metadata = Some(json_dumps([error |-> ghost[t].lastExc]))

(* A task that used its whole budget: four failed executions, nothing left *)
C5_Witness ==
    \E t \in DOMAIN tasks :
        /\ ghost[t].redelivered = 0
        /\ ghost[t].runs = 1 + max_retries
        /\ Quiescent(t)
        /\ ~ghost[t].completed
        /\ tasks[t].status = FAILED

(* A created task is in a terminal status *)
TerminalAt(t) == t \in DOMAIN tasks /\ tasks[t].status \in Terminal

(* C6: under fair scheduling of the workers every created and enqueued task
   eventually reaches COMPLETED or FAILED and stays there. *)
C6_EventuallyTerminal ==
    \A t \in TaskIds : (t \in DOMAIN tasks) ~> [](TerminalAt(t))

(* A task retried after a failure has come to rest in a terminal status *)
C6_Witness ==
    \E t \in DOMAIN tasks :
        /\ ghost[t].runs > 1
        /\ Quiescent(t)
        /\ tasks[t].status \in Terminal

(* C7: a COMPLETED row carries all result fields, and they are the values
   of one single analysis run. *)
C7_CompletedCarriesOneResult ==
    \A t \in DOMAIN tasks :
        tasks[t].status = COMPLETED =>
            \E y \in YoloOutputs :
                LET ml == AnalyzeWithYolo(y)
                IN /\ tasks[t].result_path = Some(processed_path(tasks[t]))
                   /\ tasks[t].tree_type = Some(ml.tree_type)
                   /\ tasks[t].tree_type_confidence = Some(ml.tree_type_confidence)
                   /\ tasks[t].damages_detected = Some(json_dumps(ml.damages_detected))
                   /\ tasks[t].overall_health_score = Some(ml.overall_health_score)

(* A row completed a second time, by another execution with another result *)
C7_Witness ==
    \E t \in DOMAIN tasks :
        /\ tasks[t].status = COMPLETED
        /\ tasks[t].tree_type = Some("oak")
        /\ ghost[t].redelivered > 0
        /\ Quiescent(t)

(* C8: a row carries a result field only when its status is COMPLETED. *)
C8_ResultsOnlyWhenCompleted ==
    \A t \in DOMAIN tasks :
        (\E f \in ResultFields : tasks[t][f] # Null) => tasks[t].status = COMPLETED

(* C9: a row carries the error payload if and only if its status is FAILED. *)
C9_ErrorIffFailed ==
    \A t \in DOMAIN tasks : HasError(tasks[t]) <=> tasks[t].status = FAILED

(* C10: after its creation a row is changed only by a step of process_image
   executing that task. *)
C10_OnlyDispatcherMutates ==
    [][\A t \in DOMAIN tasks :
          tasks'[t] # tasks[t] =>
              \E w \in Workers :
                  /\ workers'[w] # workers[w]
                  /\ (workers[w].id = t \/ workers'[w].id = t)]_vars

----------------------------------------------------------------------------
(* The result fields of the row are those of an analysis that returned y *)
HoldsResultOf(row, y) ==
    LET ml == AnalyzeWithYolo(y)
    IN /\ row.tree_type = Some(ml.tree_type)
       /\ row.tree_type_confidence = Some(ml.tree_type_confidence)
       /\ row.damages_detected = Some(json_dumps(ml.damages_detected))
       /\ row.overall_health_score = Some(ml.overall_health_score)

(* C11: re-execution is idempotent.  When the last finished execution of a
   task completed with the backend output y and a further execution completes
   with the same y, the row is COMPLETED again with the same findings and the
   same health score; when an execution fails to decode the image as the one
   before it did, the row is FAILED again with findings and health score
   unchanged. *)
C11_ReexecutionIdempotent ==
    [][/\ \A w \in Workers, y \in YoloOutputs :
            (/\ Complete(w, y)
             /\ ghost[workers[w].id].completed
             /\ ghost[workers[w].id].raised = ""
             /\ HoldsResultOf(tasks[workers[w].id], y))
                => /\ tasks'[workers[w].id].status = COMPLETED
                   /\ tasks'[workers[w].id].damages_detected =
                          tasks[workers[w].id].damages_detected
                   /\ tasks'[workers[w].id].overall_health_score =
                          tasks[workers[w].id].overall_health_score
       /\ \A w \in Workers :
            (/\ DecodeFails(w)
             /\ ghost[workers[w].id].lastExc = ExcDecode)
                => /\ tasks'[workers[w].id].status = FAILED
                   /\ tasks'[workers[w].id].damages_detected =
                          tasks[workers[w].id].damages_detected
                   /\ tasks'[workers[w].id].overall_health_score =
                          tasks[workers[w].id].overall_health_score]_vars

(* A task executed twice, both executions completing, the row holding the
   findings of the oak with a crack *)
C11_Witness ==
    \E t \in DOMAIN tasks :
        /\ ghost[t].runs = 2
        /\ ghost[t].lastExc = ""
        /\ Quiescent(t)
        /\ files[t] = "ok"
        /\ tasks[t].status = COMPLETED
        /\ tasks[t].damages_detected = Some(json_dumps(<<damage_info("treshchina")>>))

(* C12: two workers executing the same task concurrently leave a row that one
   sequential execution could have produced: an execution that fails never
   finds the row COMPLETED by the other worker, so it neither overwrites
   COMPLETED with FAILED nor leaves FAILED next to the other worker's
   results. *)
C12_ConcurrentRunsSerializable ==
    [][\A w \in Workers :
          FailStep(w) => tasks[workers[w].id].status # COMPLETED]_vars

(* C13: distinct tasks processed concurrently do not interfere.  A step of an
   execution changes no row but the one of the task it executes, and a task
   all of whose executions succeeded and none of which is left to run is
   COMPLETED with the results of one analysis and its own processed file. *)
C13_ConcurrentTasksIndependent ==
    [][/\ \A w \in Workers :
            workers'[w] # workers[w] =>
                \A u \in DOMAIN tasks :
                    (u # workers[w].id /\ u # workers'[w].id) => tasks'[u] = tasks[u]
       /\ \A t \in DOMAIN tasks' :
            (/\ ghost'[t].runs >= 1
             /\ ghost'[t].lastExc = ""
             /\ Quiescent(t)')
                => /\ tasks'[t].status = COMPLETED
                   /\ tasks'[t].result_path = Some(<<"processed", tasks'[t].original_path[2]>>)
                   /\ tasks'[t].original_path = <<"original", t>>
                   /\ \E y \in YoloOutputs : HoldsResultOf(tasks'[t], y)]_vars

(* Two tasks in flight at once: worker 2 executes task 2, which it can only
   have taken while worker 1 was busy with the single execution of task 1,
   and task 1 has completed since *)
C13_Witness ==
    /\ DOMAIN tasks = {1, 2}
    /\ workers[2].pc = "processing"
    /\ workers[2].id = 2
    /\ ghost[1].runs = 1
    /\ ghost[2].runs = 1
    /\ tasks[1].status = COMPLETED
    /\ tasks[2].status = PROCESSING

(* C14: an execution for an id without a row returns normally, changes no
   row and schedules no retry. *)
C14_MissingRowReturnsNone ==
    [][\A w \in Workers, m \in Msgs :
          TaskNotFound(w, m) =>
              /\ ghost'[m[1]].raised = ""
              /\ tasks' = tasks
              /\ \A n \in Msgs : queue'[n] <= queue[n]]_vars

(* C15: when the inference backend cannot be loaded, the first execution of
   the task commits FAILED, schedules no retry and leaves every result field
   empty. *)
C15_ModelUnavailableIsFatal ==
    [][\A w \in Workers :
          (ModelUnavailable(w) /\ ghost[workers[w].id].runs = 1) =>
              /\ tasks'[workers[w].id].status = FAILED
              /\ ~RetryScheduled(w)
              /\ \A f \in ResultFields : tasks'[workers[w].id][f] = Null]_vars

(* C16: an execution whose analysis raises commits FAILED and the error
   payload with the message of the exception, and changes no other column of
   the row. *)
C16_AnalysisFailureCommitsOnlyError ==
    [][\A w \in Workers :
          AnalysisFails(w) =>
              /\ ghost'[workers[w].id].lastExc = ExcAnalysis
              /\ tasks'[workers[w].id] =
                     [tasks[workers[w].id] EXCEPT
                         !.status = FAILED,
                         !.task_metadata =
                             Some(json_dumps([error |-> ghost'[workers[w].id].lastExc]))]]_vars

(* A row failed by an analysis error that still holds the results an earlier
   execution committed *)
C16_Witness ==
    \E t \in DOMAIN tasks :
        /\ tasks[t].status = FAILED
        /\ ghost[t].lastExc = ExcAnalysis
        /\ tasks[t].task_metadata = Some(json_dumps([error |-> ExcAnalysis]))
        /\ tasks[t].tree_type # Null

(* C17: a failure of the defect model on one instance is not fatal.  When the
   analysis of a segmentation result with such an instance completes, every
   instance is reported, the failing ones with an empty defect list and the
   others with their defects, and the execution commits COMPLETED with the
   findings of the first instance and the whole report in the metadata. *)
C17_DefectFailureNotFatal ==
    [][\A w \in Workers, seg_res \in SegResults :
          (/\ Complete(w, process_photo(seg_res))
           /\ \E i \in 1..Len(seg_res) : seg_res[i].defect_raises) =>
              LET trees == process_photo(seg_res).trees
                  row == tasks'[workers[w].id]
              IN /\ Len(trees) = Len(seg_res)
                 /\ \A i \in 1..Len(seg_res) :
                        IF seg_res[i].defect_raises
                        THEN trees[i].povrezhdeniya = <<>>
                        ELSE Len(trees[i].povrezhdeniya) = Len(seg_res[i].defect_labels)
                 /\ row.status = COMPLETED
                 /\ row.damages_detected =
                        Some(json_dumps([j \in 1..Len(trees[1].povrezhdeniya) |->
                                            damage_info(trees[1].povrezhdeniya[j])]))
                 /\ row.task_metadata[1].json.ml_analysis.yolo_raw_data.trees = trees]_vars

(* A task completed from the report of two instances, the first with its
   crack, the second with the empty defect list of a failed defect model *)
C17_Witness ==
    \E t \in DOMAIN tasks :
        /\ tasks[t].status = COMPLETED
        /\ tasks[t].damages_detected = Some(json_dumps(<<damage_info("treshchina")>>))
        /\ tasks[t].tree_type = Some("oak")
        /\ ~HasError(tasks[t])
        /\ LET trees == tasks[t].task_metadata[1].json.ml_analysis.yolo_raw_data.trees
           IN /\ Len(trees) = 2
              /\ trees[1].povrezhdeniya = <<"treshchina">>
              /\ trees[2].povrezhdeniya = <<>>

(* C18: zero segmented instances is not an error.  The execution completes
   with an empty findings list, the species "unknown" and the baseline health
   score 0.5. *)
C18_NoInstanceCompletesWithBaseline ==
    [][\A w \in Workers :
          Complete(w, process_photo(<<>>)) =>
              LET row == tasks'[workers[w].id]
              IN /\ row.status = COMPLETED
                 /\ ~HasError(row)
                 /\ row.damages_detected = Some(json_dumps(<<>>))
                 /\ row.tree_type = Some("unknown")
                 /\ row.overall_health_score = Some(50)]_vars

(* A task completed on its first execution from an image with no instance *)
C18_Witness ==
    \E t \in DOMAIN tasks :
        /\ ghost[t].runs = 1
        /\ tasks[t].status = COMPLETED
        /\ tasks[t].task_metadata[1].json.ml_analysis.yolo_raw_data.trees = <<>>
        /\ tasks[t].tree_type = Some("unknown")
        /\ tasks[t].overall_health_score = Some(50)

(* C19: the health score lies in [0, 1] for every confidence in [0, 1], every
   list of damages and every mix of severities, in the computation of the
   real backend (_analyze_with_yolo) and in the mock computation
   (_calculate_health_score). *)
C19_HealthScoreInUnitInterval ==
    /\ (calc.fn = "_calculate_health_score" /\ calc.result # Null) =>
           /\ calc.result[1].den > 0
           /\ 0 <= calc.result[1].num
           /\ calc.result[1].num <= calc.result[1].den
    /\ (calc.fn = "_analyze_with_yolo" /\ calc.result # Null) =>
           /\ 0 <= calc.result[1].overall_health_score
           /\ calc.result[1].overall_health_score <= 100

(* The mock computation on the longest list, confidence 1.0 and jitter 1.1:
   the product exceeds 1 and the result is 1 *)
C19_Witness ==
    /\ calc.fn = "_calculate_health_score"
    /\ calc.result # Null
    /\ Len(calc.damages) = MaxDamages
    /\ calc.jitter = Frac(11, 10)
    /\ calc.tree_confidence = Frac(20, 20)
    /\ calc.result[1].num = calc.result[1].den

(* C20: the committed health score of a task completed from an image with
   at least one detected tree is
   clamp01(confidence * product of the severity modifiers of its findings),
   the jitter being 1.0. *)
C20_CommittedScoreFollowsFormula ==
    \A t \in DOMAIN tasks :
        (/\ tasks[t].status = COMPLETED
         /\ tasks[t].task_metadata[1].json.ml_analysis.yolo_raw_data.trees # <<>>) =>
            FracEq(Frac(tasks[t].overall_health_score[1], 100),
                   calculate_health_score(tasks[t].damages_detected[1].json,
                                          Frac(tasks[t].tree_type_confidence[1], 100),
                                          Frac(10, 10)))

----------------------------------------------------------------------------
(* C21: when at least one instance is detected and the selected instance has
   no finding, the committed health score equals the committed confidence. *)
C21_ZeroFindingsScoreIsConfidence ==
    [][\A w \in Workers, seg_res \in AllSegResults :
          (/\ Complete(w, process_photo(seg_res))
           /\ Len(seg_res) > 0
           /\ tasks'[workers[w].id].damages_detected = Some(json_dumps(<<>>)))
              => tasks'[workers[w].id].overall_health_score =
                     tasks'[workers[w].id].tree_type_confidence]_vars

(* The instance with the highest confidence, the first of them on a tie *)
Primary(seg_res) ==
    CHOOSE i \in 1..Len(seg_res) :
        \A j \in 1..Len(seg_res) :
            \/ seg_res[j].conf < seg_res[i].conf
            \/ (seg_res[j].conf = seg_res[i].conf /\ i <= j)

(* C22: when segmentation returns several instances, the committed species
   and confidence are those of the instance with the highest confidence (the
   first detected of them on a tie), whatever the order of the instances. *)
C22_PrimaryIsHighestConfidence ==
    [][\A w \in Workers, seg_res \in AllSegResults :
          (Complete(w, process_photo(seg_res)) /\ Len(seg_res) > 1) =>
              LET best == seg_res[Primary(seg_res)]
                  row == tasks'[workers[w].id]
              IN /\ row.tree_type_confidence = Some(best.conf)
                 /\ row.tree_type =
                        Some(AnalyzeWithYolo(process_photo(<<best>>)).tree_type)]_vars

(* C23: an unknown label is not an error.  Whatever species and defect labels
   the models return, a completing execution commits a species of the TreeType
   taxonomy ("unknown" for a label the species table does not know), findings
   whose type is in the DamageType taxonomy, and COMPLETED without an error
   payload. *)
C23_UnknownLabelsTakeFallback ==
    [][\A w \in Workers, seg_res \in AllSegResults :
          Complete(w, process_photo(seg_res)) =>
              LET row == tasks'[workers[w].id]
                  findings == row.damages_detected[1].json
              IN /\ row.status = COMPLETED
                 /\ ~HasError(row)
                 /\ row.tree_type[1] \in TreeType
                 /\ (Len(seg_res) > 0 /\ seg_res[1].label \notin TreeType)
                        => row.tree_type = Some("unknown")
                 /\ Len(findings) =
                        (IF Len(seg_res) > 0 THEN Len(seg_res[1].defect_labels) ELSE 0)
                 /\ \A i \in 1..Len(findings) : findings[i].type \in DamageType]_vars

(* One task completed from the instance labelled "elm", another from the pine
   with the defect labelled "rot" *)
C23_Witness ==
    \E t \in DOMAIN tasks, u \in DOMAIN tasks :
        /\ tasks[t].status = COMPLETED
        /\ tasks[t].tree_type = Some("unknown")
        /\ tasks[t].tree_type_confidence = Some(65)
        /\ LET trees == tasks[t].task_metadata[1].json.ml_analysis.yolo_raw_data.trees
           IN Len(trees) = 1 /\ trees[1].vid = "elm"
        /\ tasks[u].status = COMPLETED
        /\ Len(tasks[u].damages_detected[1].json) = 2
        /\ tasks[u].damages_detected[1].json[1].description = "rot"
        /\ tasks[u].damages_detected[1].json[1].type = "bark_damage"

(* A finding is well formed: confidence in [0, 1] (unit is the value of 1.0),
   a severity of the taxonomy, a description and at least one recommendation,
   none of them the empty text *)
WellFormedFinding(d, unit) ==
    /\ 0 <= d.confidence
    /\ d.confidence <= unit
    /\ d.severity \in {"low", "medium", "high"}
    /\ d.description # ""
    /\ Len(d.recommendations) > 0
    /\ \A i \in 1..Len(d.recommendations) : d.recommendations[i] # ""

(* C24: every finding is well formed: those the conversion of the real
   backend returns, which are the ones process_image commits, and the one the
   mock builds for every damage type and every severity of the taxonomy. *)
C24_FindingsWellFormed ==
    /\ (calc.fn = "_analyze_with_yolo" /\ calc.result # Null) =>
           \A i \in 1..Len(calc.result[1].damages_detected) :
               WellFormedFinding(calc.result[1].damages_detected[i], 100)
    /\ (calc.fn = "_generate_damage_analysis" /\ calc.result # Null) =>
           /\ calc.result[1].type \in DamageType
           /\ WellFormedFinding(calc.result[1], 1000)

(* The mock has built the damage of the pair (root_damage, high) *)
C24_Witness ==
    /\ calc.fn = "_generate_damage_analysis"
    /\ calc.result # Null
    /\ calc.damage_type = "root_damage"
    /\ calc.severity = "high"
    /\ calc.result[1].description = "Potential root system damage"
    /\ Len(calc.result[1].recommendations) = 3

(* The processed-image metadata of a row: byte sizes and pixel dimensions of
   the original and of the processed image *)
HasImageMetadata(row) ==
    /\ row.task_metadata # Null
    /\ {"original_size", "processed_size", "original_dimensions", "processed_dimensions"}
           \subseteq DOMAIN row.task_metadata[1].json

(* C25: an execution in which normalisation has run commits the
   processed-image metadata with the row, whether it ends in COMPLETED or,
   because the analysis or a later step raises, in FAILED. *)
C25_MetadataAttachedAfterNormalization ==
    [][\A w \in Workers :
          (\/ AnalysisFails(w)
           \/ \E y \in YoloOutputs : MetadataFails(w, y)
           \/ \E y \in YoloOutputs : Complete(w, y))
              => HasImageMetadata(tasks'[workers[w].id])]_vars

(* The JSON document in the damages_detected text of a response *)
FindingsDocument(text) == json_encode(PyFindings(text.json))

(* C26: the findings a consumer reads back through the status interface of a
   completed task, by parsing the persisted text, are the sequence the
   pipeline produced: same length, same order, same field values. *)
C26_FindingsRoundTrip ==
    [][\A w \in Workers, t \in TaskIds, seg_res \in AllSegResults :
          (Complete(w, process_photo(seg_res)) /\ workers[w].id = t) =>
              LET produced == AnalyzeWithYolo(process_photo(seg_res)).damages_detected
                  response == check_task_status(t, tasks[t].user_id)'
                  read == json_loads(FindingsDocument(response.damages_detected[1]))
              IN /\ response.status_code = 200
                 /\ response.status = COMPLETED
                 /\ read.py = "list"
                 /\ Len(read.items) = Len(produced)
                 /\ \A i \in 1..Len(produced) :
                        /\ read.items[i] = PyFinding(produced[i])
                        /\ read.items[i].items.description.value = produced[i].description
                 /\ read = PyFindings(produced)]_vars

(* A task completed with the two findings of the pine, "rot" before the crack,
   that read back in this order *)
C26_Witness ==
    \E t \in DOMAIN tasks :
        /\ check_task_status(t, tasks[t].user_id).status = COMPLETED
        /\ LET read == json_loads(FindingsDocument(check_task_status(t, tasks[t].user_id).damages_detected[1]))
           IN /\ Len(read.items) = 2
              /\ read.items[1].items.description = PyStr("rot")
              /\ read.items[2].items.description = PyStr("treshchina")

(* C27: for every input size the normalised image is at most 800 wide and 600
   high, no side is larger than the same side of the input, and an input
   within 800 x 600 keeps its size. *)
C27_NormalizedSizeBounded ==
    (calc.fn = "normalize" /\ calc.result # Null) =>
        LET in == calc.size
            out == calc.result[1].size
        IN /\ 1 <= out[1] /\ out[1] <= MaxWidth
           /\ 1 <= out[2] /\ out[2] <= MaxHeight
           /\ out[1] <= in[1]
           /\ out[2] <= in[2]
           /\ (in[1] <= MaxWidth /\ in[2] <= MaxHeight) => out = in

(* An image of 3000 x 4000 has been normalised to 450 x 600 *)
C27_Witness ==
    /\ calc.fn = "normalize"
    /\ calc.result # Null
    /\ calc.size = <<3000, 4000>>
    /\ calc.result[1].size = <<450, 600>>

(* The modes with an alpha channel or a palette *)
AlphaOrPaletteModes == {"RGBA", "LA", "P", "PA"}

(* C28: for every input mode with an alpha channel or a palette, the image
   handed to the JPEG encoder is RGB. *)
C28_AlphaAndPaletteConverted ==
    (calc.fn = "normalize" /\ calc.result # Null /\ calc.mode \in AlphaOrPaletteModes) =>
        calc.result[1].mode = "RGB"

(* C29: an upload of 10 * 1024 * 1024 bytes or more, under a name with an
   allowed extension, is answered with 413. *)
C29_TenMiBOrMoreRejected ==
    [][\A file \in Uploads, c \in {"ok", "corrupt"} :
          (/\ NewTaskRequest(file, c)
           /\ file.size >= 10 * 1024 * 1024
           /\ lstrip_dot(lower(suffix(file.filename))) \in allowed_extensions)
              => calc'.status_code = 413]_vars

(* The upload fails validation: its size is over the limit or its extension
   is not an allowed one *)
Invalid(file) ==
    \/ file.size > max_file_size
    \/ lstrip_dot(lower(suffix(file.filename))) \notin allowed_extensions

(* C30: an upload that fails validation is answered with 413 when it is over
   the size limit and with 400 otherwise, and the request creates no row,
   stores no file and enqueues no task id. *)
C30_RejectedUploadChangesNothing ==
    [][\A file \in Uploads, c \in {"ok", "corrupt"} :
          (NewTaskRequest(file, c) /\ Invalid(file)) =>
              /\ calc'.status_code = (IF file.size > max_file_size THEN 413 ELSE 400)
              /\ tasks' = tasks
              /\ files' = files
              /\ queue' = queue
              /\ workers' = workers]_vars

(* A text file has been rejected with 400 while an accepted task is queued:
   one row, one stored file, one message *)
C30_Witness ==
    /\ calc.fn = "create_new_task"
    /\ calc.file.filename = <<"notes", ".txt">>
    /\ calc.status_code = 400
    /\ DOMAIN tasks = {1}
    /\ DOMAIN files = {1}
    /\ queue[<<1, 0>>] = 1

(* A row no execution of process_image and no webhook has written to *)
Untouched(t) ==
    /\ t \in DOMAIN tasks
    /\ ghost[t].runs = 0
    /\ webhooks = 0

(* C32: a task that no execution has changed yet has status PENDING, no result
   path, no tree_type, tree_type_confidence or overall_health_score, and
   damages_detected equal to the encoding of the empty list. *)
C32_NewTaskDefaults ==
    \A t \in DOMAIN tasks :
        Untouched(t) =>
            /\ tasks[t].status = PENDING
            /\ tasks[t].result_path = Null
            /\ tasks[t].tree_type = Null
            /\ tasks[t].tree_type_confidence = Null
            /\ tasks[t].overall_health_score = Null
            /\ tasks[t].damages_detected = Some(json_dumps(<<>>))

(* C33: no step commits PENDING for a row that has left PENDING; a row reaches
   COMPLETED or FAILED only after leaving PENDING, so no execution, retry or
   redelivery puts a task that has been terminal back to PENDING. *)
C33_NoReturnToPending ==
    [][\A t \in DOMAIN tasks :
          tasks[t].status # PENDING => tasks'[t].status # PENDING]_vars

(* A task that was executed again after an execution had left it terminal,
   and is terminal once more with no message left for it *)
C33_Witness ==
    \E t \in DOMAIN tasks :
        /\ ghost[t].runs >= 2
        /\ ghost[t].lastExc # ""
        /\ tasks[t].status \in Terminal
        /\ Quiescent(t)

(* C39: every step leaves the id, the user_id and the original_path of every
   existing row as they are, and a row that a step creates has its own id, the
   path of its upload and one existing user as owner; so after any sequence
   of executions the identity fields are those written at creation. *)
C39_IdentityFieldsKept ==
    [][\A t \in DOMAIN tasks' :
          IF t \in DOMAIN tasks
          THEN /\ tasks'[t].id = tasks[t].id
               /\ tasks'[t].user_id = tasks[t].user_id
               /\ tasks'[t].original_path = tasks[t].original_path
          ELSE /\ tasks'[t].id = t
               /\ tasks'[t].original_path = <<"original", t>>
               /\ tasks'[t].user_id \in DOMAIN users']_vars

(* A task completed by its second or a later execution, at rest, still with
   its id and the path of its upload *)
C39_Witness ==
    \E t \in DOMAIN tasks :
        /\ ghost[t].runs >= 2
        /\ ghost[t].completed
        /\ tasks[t].status = COMPLETED
        /\ Quiescent(t)
        /\ tasks[t].id = t
        /\ tasks[t].original_path = <<"original", t>>
        /\ users[tasks[t].user_id] = ghost[t].uploader

(* C38: the first retry of a task is scheduled with a delay of 60, and every
   later retry with a delay strictly larger than that of the retry scheduled
   before it. *)
C38_RetryDelayGrows ==
    [][\A w \in Workers :
          RetryScheduled(w) =>
              LET t == workers[w].id
              IN IF ghost[t].countdown = 0
                 THEN ghost'[t].countdown = countdown
                 ELSE ghost'[t].countdown > ghost[t].countdown]_vars

(* C36: the image an execution hands to the analysis, and so to the
   segmentation model, is the processed file the normaliser wrote in that
   execution. *)
C36_AnalysisReadsNormalizedImage ==
    [][\A w \in Workers, y \in YoloOutputs :
          Complete(w, y) =>
              LET t == workers[w].id
              IN tasks'[t].task_metadata[1].json.ml_analysis.image_path
                     = processed_path(tasks[t])]_vars

(* C34: the step by which an execution gets to its work on the file commits
   PROCESSING and no result yet; every step that writes results or an error
   to a row is the end of an execution that is past that commit; and an
   execution that finds no row commits nothing and does no work on a file. *)
C34_ProcessingCommittedFirst ==
    [][/\ \A w \in Workers :
             (workers[w].pc = "idle" /\ workers'[w].pc = "processing") =>
                 LET t == workers'[w].id
                 IN /\ tasks'[t].status = PROCESSING
                    /\ \A f \in ResultFields : tasks'[t][f] = tasks[t][f]
                    /\ tasks'[t].task_metadata = tasks[t].task_metadata
       /\ \A t \in DOMAIN tasks :
             (tasks'[t] # tasks[t] /\ tasks'[t].status # PROCESSING) =>
                 \E w \in Workers :
                     /\ workers[w].pc = "processing"
                     /\ workers[w].id = t
                     /\ Ends(w)
       /\ \A w \in Workers, m \in Msgs :
             TaskNotFound(w, m) =>
                 /\ tasks' = tasks
                 /\ workers'[w].pc = "idle"
                 /\ ghost'[m[1]].runs = ghost[m[1]].runs]_vars

(* A task completed by an execution, while a message for an id without a row
   has been taken and dropped *)
C34_Witness ==
    /\ UnknownId \in DOMAIN ghost
    /\ ghost[UnknownId].raised = ExcAttribute
    /\ \E t \in DOMAIN tasks :
          /\ tasks[t].status = COMPLETED
          /\ ghost[t].runs = 1
          /\ Quiescent(t)

(* C31: a client that polls a task it uploaded itself, sending the same
   cookie value as with the upload or none with either, gets 200 and the
   task's status. *)
C31_UploaderCanPoll ==
    [][\A cookie \in Cookies, t \in TaskIds :
          (CheckTaskStatus(cookie, t) /\ t \in DOMAIN tasks /\ ghost[t].uploader = cookie) =>
              /\ calc'.response.status_code = 200
              /\ calc'.response.status = tasks[t].status]_vars

(* C40: the endpoint answers 200 with the row's id, status and results when
   the task exists and its user_id is the requesting user; in every other
   case, whatever the state of the task, the response is the one given for an
   id that has no row. *)
C40_OnlyOwnerSeesTask ==
    [][\A cookie \in Cookies, t \in TaskIds \cup {UnknownId} :
          CheckTaskStatus(cookie, t) =>
              IF t \in DOMAIN tasks /\ tasks[t].user_id = UserIdFor(cookie)
              THEN /\ calc'.response.status_code = 200
                   /\ calc'.response.id = t
                   /\ calc'.response.status = tasks[t].status
                   /\ \A f \in ResultFields : calc'.response[f] = tasks[t][f]
              ELSE /\ calc'.response.status_code = 404
                   /\ calc'.response = check_task_status(UnknownId, UserIdFor(cookie))]_vars

(* A client without the cookie asked for the completed task of the client
   that keeps its session and got 404 *)
C40_Witness ==
    /\ calc.fn = "check_task_status"
    /\ calc.cookie = NoCookie
    /\ calc.task_id \in DOMAIN tasks
    /\ ghost[calc.task_id].uploader = SessionCookie
    /\ tasks[calc.task_id].status = COMPLETED
    /\ calc.response.status_code = 404

(* C35: whenever a step puts the first message of a task on the queue, the
   row of that task is already committed with status PENDING. *)
C35_EnqueuedAfterPendingCommit ==
    [][\A m \in Msgs :
          (m[2] = 0 /\ queue'[m] > queue[m]) =>
              /\ m[1] \in DOMAIN tasks
              /\ tasks[m[1]].status = PENDING]_vars

(* A two-file request refused with 400 on its second file, whose first file
   has its row and has been taken from the queue by a worker *)
C35_Witness ==
    /\ calc.fn = "create_multiple_tasks"
    /\ calc.status_code = 400
    /\ Len(calc.files) = 1
    /\ Len(calc.task_ids) = 1
    /\ calc.task_ids[1] \in DOMAIN tasks
    /\ ghost[calc.task_ids[1]].runs = 1

(* C37: within one call of the analysis the segmentation model is invoked at
   most once, and when the call returns the defect model has been invoked
   exactly once for every instance the segmentation model detected. *)
C37_ModelsInvokedOncePerInstance ==
    calc.fn = "_process_photo" =>
        /\ calc.seg_calls <= 1
        /\ calc.pc = "done" =>
               /\ Len(calc.defect_calls) = Len(calc.photo)
               /\ \A i \in 1..Len(calc.photo) : calc.defect_calls[i] = 1

====
